---- MODULE Spec2Model ----
(***************************************************************************)
(* A model of three subsystems of the pyroscope-rs agent:                  *)
(*   - the py-spy backend   (pyroscope_backends/pyroscope_pyspy/src/lib.rs)*)
(*   - the SessionManager and Session (src/session.rs)                     *)
(*   - the epoll Timer      (src/timer/epoll.rs)                           *)
(* Each subsystem has its own specification over its own variables; the    *)
(* variables of the other subsystems stay at their constructed values.     *)
(***************************************************************************)
EXTENDS Integers, Sequences, FiniteSets

VARIABLES
    \* ---- Pyspy backend (struct Pyspy, lib.rs:112-125) ----
    state,            \* Pyspy.state
    buffer,           \* Pyspy.buffer: Report, trace id -> count (0 = absent)
    sampler_config,   \* Pyspy.sampler_config: "None" | "Some"
    sampler_thread,   \* Pyspy.sampler_thread: "None" | "Some"
    running,          \* Pyspy.running (AtomicBool)
    include_idle,     \* config.include_idle
    gil_only,         \* config.gil_only
    spc,              \* position of the sampler thread's closure
    pending,          \* traces of the current sample not yet visited by the loop
    cpc,              \* position of the caller inside a Backend method
    v8,               \* report(): the bytes taken before the clear
    last,             \* the most recent step: [op, res]
    nsamples,         \* samples the sampler has yielded so far (bounded)
    recorded,         \* history: trace id -> times recorded into the buffer
    returned,         \* history: trace id -> count summed over Ok(v8) results
    \* ---- SessionManager (session.rs:33-84) ----
    queue,            \* the sync_channel's buffer
    tx_alive,         \* SessionManager.tx has not been dropped
    wpc,              \* position of the worker thread
    wresult,          \* the worker's JoinHandle result
    cur,              \* the Session the worker is sending
    ridx,             \* Session::send: index of the report being processed
    npushed,          \* sessions pushed so far (the next session id - 1)
    kills,            \* Kill signals pushed so far
    send_called,      \* history: session ids whose send() was entered
    send_result,      \* history: session id -> "none" | "Ok" | "Err"
    attempts,         \* history: <<session id, report index>> of ingest requests
    before_kill,      \* history: session ids accepted ahead of the first Kill
    ppc,              \* position of the caller of push: "idle" | "blocked"
    psignal,          \* the signal of the latest push that blocked
    prefilled,        \* sessions pushed before the first state
    outage,           \* every ingest request fails
    config_ok,        \* config.url is a base URL and the tags merge with the name
    accepted,         \* history: session ids whose push returned Ok
    \* ---- Timer (timer/epoll.rs:28-181) ----
    now,              \* wall clock, seconds (CLOCK_REALTIME)
    cycle,            \* Timer::initialize(cycle), seconds
    start_time,       \* wall clock at Timer::initialize
    it_value,         \* timerfd: next absolute expiration
    expirations,      \* timerfd: expirations not yet read
    due_since,        \* wall clock of the oldest unread expiration
    tpc,              \* position of the Timer worker
    snapshot,         \* the worker's `from` (AgentSignal::NextSnapshot payload)
    txs,              \* Timer.txs: sequence of listener ids (0 = the dummy tx)
    rx_alive,         \* listener id -> its Receiver still exists
    inbox,            \* listener id -> values delivered to its channel
    emitted,          \* history: the NextSnapshot values, in emission order
    nlisteners,       \* listeners attached so far
    txs_lock,         \* holder of the Mutex around Timer.txs: "free" | "worker"
    send_idx,         \* the fan-out's position in the list
    delivered,        \* history: listeners the current fan-out has delivered to
    attach_result,    \* result of the latest attach_listener call
    dropped,          \* history: drop_listeners has been called
    \* ---- Session::new (session.rs:108-121) ----
    w_cycle,          \* the cycle length C of the agent
    w_tick,           \* the tick time handed to Session::new
    w_session         \* the Session built, or "none"

bvars == <<state, buffer, sampler_config, sampler_thread, running, include_idle,
           gil_only, spc, pending, cpc, v8, last, nsamples, recorded, returned>>
svars == <<queue, tx_alive, wpc, wresult, cur, ridx, npushed, kills, send_called,
           send_result, attempts, before_kill, ppc, psignal, prefilled, outage,
           config_ok, accepted>>
tvars == <<now, cycle, start_time, it_value, expirations, due_since, tpc, snapshot,
           txs, rx_alive, inbox, emitted, nlisteners, txs_lock, send_idx, delivered,
           attach_result, dropped>>
wvars == <<w_cycle, w_tick, w_session>>
vars == <<bvars, svars, tvars, wvars>>

-----------------------------------------------------------------------------
(* Bounds *)

\* trace ids (distinct folded stacks) the sampled process can show
MaxTraceId == 1
\* samples the sampler iterator yields over a run
MaxSamples == 2
\* traces in one sample
MaxSampleLen == 1
\* sessions pushed to the SessionManager over a run
MaxPush == 2
\* reports in one Session
MaxReports == 2
\* Kill signals pushed over a run
MaxKills == 1
\* the wall clock's horizon, seconds
MaxTime == 21
\* the latest wall-clock second at which Timer::initialize is called
MaxStart == 4
\* the latest slot of a full channel in which the Kill sits at the start
MaxKillSlot == 2
\* listeners attached to the Timer over a run
MaxListeners == 1
\* the latest tick time handed to Session::new
MaxTick == 60

-----------------------------------------------------------------------------
(* backend::Report *)

TraceIds == 1..MaxTraceId

\* Report::default(): no entry
Report_default == [t \in TraceIds |-> 0]

\* Report::record(trace): increments the entry's count, creating it at 1
Report_record(report, t) == [report EXCEPT ![t] = @ + 1]

\* Report::clear(): removes every entry
Report_clear(report) == [t \in TraceIds |-> 0]

\* Report::to_string(): one line "<folded stack> <count>" per entry
Report_to_string(report) == {<<t, report[t]>> : t \in {u \in TraceIds : report[u] > 0}}

\* the count a folded body carries for trace t
LinesCount(lines, t) == IF \E l \in lines : l[1] = t
                        THEN (CHOOSE l \in lines : l[1] = t)[2] ELSE 0

-----------------------------------------------------------------------------
(* Pyspy *)

\* py_spy::StackTrace, as far as the sampler loop reads it
Traces == [id : TraceIds, active : BOOLEAN, owns_gil : BOOLEAN]

RECURSIVE SeqsUpTo(_, _)
SeqsUpTo(S, n) == IF n = 0 THEN {<<>>}
                  ELSE LET shorter == SeqsUpTo(S, n - 1)
                       IN shorter \cup {Append(s, x) : s \in {q \in shorter : Len(q) = n - 1}, x \in S}

\* sample.traces
Samples == SeqsUpTo(Traces, MaxSampleLen)

\* Pyspy::new
Pyspy_new ==
    /\ state = "Uninitialized"
    /\ buffer = Report_default
    /\ sampler_config = "None"
    /\ sampler_thread = "None"
    /\ running = FALSE
    /\ include_idle \in BOOLEAN
    /\ gil_only \in BOOLEAN
    /\ spc = "none"
    /\ pending = <<>>
    /\ cpc = "idle"
    /\ v8 = {}
    /\ last = [op |-> "new", res |-> "Ok"]
    /\ nsamples = 0
    /\ recorded = [t \in TraceIds |-> 0]
    /\ returned = [t \in TraceIds |-> 0]

\* a faulty initialize_legal: no state check
initialize_unchecked == TRUE

\* a faulty start_legal: only a Running backend is refused
start_unless_running == state # "Running"

\* the state checks that open initialize, start, stop and report
initialize_legal == state = "Uninitialized"
start_legal == state = "Ready"
stop_legal == state = "Running"
report_legal == state = "Running"

initialize ==
    /\ cpc = "idle"
    /\ IF ~initialize_legal
       THEN /\ last' = [op |-> "initialize", res |-> "Err"]
            /\ UNCHANGED <<state, sampler_config>>
       ELSE /\ sampler_config' = "Some"
            /\ state' = "Ready"
            /\ last' = [op |-> "initialize", res |-> "Ok"]
    /\ UNCHANGED <<buffer, sampler_thread, running, include_idle, gil_only, spc,
                   pending, cpc, v8, nsamples, recorded, returned>>

start ==
    /\ cpc = "idle"
    /\ IF ~start_legal
       THEN /\ last' = [op |-> "start", res |-> "Err"]
            /\ UNCHANGED <<state, running, sampler_thread, spc, cpc>>
       ELSE IF sampler_config = "None"
       THEN \* self.sampler_config.clone().unwrap() panics, after the store
            /\ running' = TRUE
            /\ cpc' = "panicked"
            /\ last' = [op |-> "start", res |-> "panic"]
            /\ UNCHANGED <<state, sampler_thread, spc>>
       ELSE /\ running' = TRUE
            /\ sampler_thread' = "Some"
            /\ spc' = "new"
            /\ state' = "Running"
            /\ last' = [op |-> "start", res |-> "Ok"]
            /\ UNCHANGED cpc
    /\ UNCHANGED <<buffer, sampler_config, include_idle, gil_only, pending, v8,
                   nsamples, recorded, returned>>

\* stop(), up to the wait in join(): the state check, the store of the flag
\* and sampler_thread.take().unwrap()
stop_store ==
    /\ cpc = "idle"
    /\ IF ~stop_legal
       THEN /\ last' = [op |-> "stop", res |-> "Err"]
            /\ UNCHANGED <<running, sampler_thread, cpc>>
       ELSE IF sampler_thread = "None"
       THEN \* take().unwrap() on None panics, after the store
            /\ running' = FALSE
            /\ cpc' = "panicked"
            /\ last' = [op |-> "stop", res |-> "panic"]
            /\ UNCHANGED sampler_thread
       ELSE /\ running' = FALSE
            /\ sampler_thread' = "None"
            /\ cpc' = "stop_join"
            /\ last' = [op |-> "stop", res |-> "pending"]
    /\ UNCHANGED <<state, buffer, sampler_config, include_idle,
                   gil_only, spc, pending, v8, nsamples, recorded, returned>>

\* a faulty joined: stop does not wait for the sampler thread
not_joined == TRUE

\* join() returns once the sampler thread has ended
joined == spc \in {"ok", "err", "panic"}

\* stop(), from the return of join() on: `.unwrap()?` and the state
stop_join ==
    /\ cpc = "stop_join"
    /\ joined
    /\ spc' = IF spc \in {"ok", "err", "panic"} THEN "none" ELSE spc
    /\ IF spc = "panic"
       THEN \* join() returns Err(payload) and unwrap() panics
            /\ cpc' = "panicked"
            /\ last' = [op |-> "stop", res |-> "panic"]
            /\ UNCHANGED state
       ELSE IF spc = "err"
       THEN /\ cpc' = "idle"
            /\ last' = [op |-> "stop", res |-> "Err"]
            /\ UNCHANGED state
       ELSE /\ cpc' = "idle"
            /\ state' = "Ready"
            /\ last' = [op |-> "stop", res |-> "Ok"]
    /\ UNCHANGED <<buffer, sampler_config, sampler_thread, running, include_idle,
                   gil_only, pending, v8, nsamples, recorded, returned>>

\* report(), up to the first release of the buffer lock
report_to_string ==
    /\ cpc = "idle"
    /\ IF ~report_legal
       THEN /\ last' = [op |-> "report", res |-> "Err"]
            /\ UNCHANGED <<v8, cpc>>
       ELSE /\ v8' = Report_to_string(buffer)
            /\ cpc' = "report_clear"
            /\ last' = [op |-> "report", res |-> "pending"]
    /\ UNCHANGED <<state, buffer, sampler_config, sampler_thread, running,
                   include_idle, gil_only, spc, pending, nsamples, recorded, returned>>

\* report(), the second lock: clear, then Ok(v8)
report_clear ==
    /\ cpc = "report_clear"
    /\ buffer' = Report_clear(buffer)
    /\ returned' = [t \in TraceIds |-> returned[t] + LinesCount(v8, t)]
    /\ v8' = {}
    /\ cpc' = "idle"
    /\ last' = [op |-> "report", res |-> "Ok"]
    /\ UNCHANGED <<state, sampler_config, sampler_thread, running, include_idle,
                   gil_only, spc, pending, nsamples, recorded>>

\* the sampler thread: Sampler::new(...)?
sampler_new ==
    /\ spc = "new"
    /\ \E ok \in BOOLEAN : spc' = IF ok THEN "next" ELSE "err"
    /\ last' = [op |-> "sampler", res |-> "-"]
    /\ UNCHANGED <<state, buffer, sampler_config, sampler_thread, running,
                   include_idle, gil_only, pending, cpc, v8, nsamples, recorded, returned>>

\* the sampler thread: the take_while iterator yields its next item, or ends
sampler_next ==
    /\ spc = "next"
    /\ \/ \* the Sampler ends (the process exited, the time limit passed)
          /\ spc' = "ok"
          /\ UNCHANGED <<pending, nsamples>>
       \/ \* the thread panics inside py_spy
          /\ spc' = "panic"
          /\ UNCHANGED <<pending, nsamples>>
       \/ \* the Sampler yields a sample and the predicate reads the flag
          /\ nsamples < MaxSamples
          /\ \E sample \in Samples :
                IF running
                THEN /\ pending' = sample
                     /\ spc' = "trace"
                     /\ nsamples' = nsamples + 1
                ELSE /\ spc' = "ok"
                     /\ UNCHANGED <<pending, nsamples>>
    /\ last' = [op |-> "sampler", res |-> "-"]
    /\ UNCHANGED <<state, buffer, sampler_config, sampler_thread, running,
                   include_idle, gil_only, cpc, v8, recorded, returned>>

\* the two `continue` conditions of the loop body
skipped(trace) == \/ ~(include_idle \/ trace.active)
                  \/ (gil_only /\ ~trace.owns_gil)

\* the sampler thread: one iteration of `for trace in sample.traces`
sampler_trace ==
    /\ spc = "trace"
    /\ IF pending = <<>>
       THEN /\ spc' = "next"
            /\ UNCHANGED <<pending, buffer, recorded>>
       ELSE /\ pending' = Tail(pending)
            /\ UNCHANGED spc
            /\ IF skipped(Head(pending))
               THEN UNCHANGED <<buffer, recorded>>
               ELSE /\ buffer' = Report_record(buffer, Head(pending).id)
                    /\ recorded' = [recorded EXCEPT ![Head(pending).id] = @ + 1]
    /\ last' = [op |-> "sampler", res |-> "-"]
    /\ UNCHANGED <<state, sampler_config, sampler_thread, running, include_idle,
                   gil_only, cpc, v8, nsamples, returned>>

-----------------------------------------------------------------------------
(* SessionManager and Session::send *)

\* sync_channel(10)
QueueCap == 10

\* a Report of a Session, as far as process() reads it: whether its
\* to_string() is empty
ReportKinds == {"empty", "data"}

\* ids of the Sessions: those a full channel and the worker hold, and
\* MaxPush more
SessionIds == 1..(QueueCap + 1 + MaxPush)

NoSession == [id |-> 0, reports |-> <<>>]

KillSignal == [kind |-> "Kill", id |-> 0, reports |-> <<>>]

SessionSignal(id, reports) == [kind |-> "Session", id |-> id, reports |-> reports]

\* a SessionManager whose first p Sessions (one report with data each) have
\* been pushed while the worker was inside the send of the first one
SessionManager_prefilled(p) ==
    /\ queue = [i \in 1..(p - 1) |-> SessionSignal(i + 1, <<"data">>)]
    /\ tx_alive = TRUE
    /\ wpc = IF p = 0 THEN "recv" ELSE "send"
    /\ wresult = "running"
    /\ cur = IF p = 0 THEN NoSession ELSE [id |-> 1, reports |-> <<"data">>]
    /\ ridx = IF p = 0 THEN 0 ELSE 1
    /\ npushed = p
    /\ kills = 0
    /\ send_called = IF p = 0 THEN {} ELSE {1}
    /\ send_result = [s \in SessionIds |-> "none"]
    /\ attempts = {}
    /\ before_kill = 1..p
    /\ ppc = "idle"
    /\ psignal = NoSession
    /\ prefilled = p
    /\ accepted = 1..p

\* a SessionManager whose channel is full and holds a Kill in slot k: QueueCap
\* Sessions and the Kill were pushed while the worker was inside the send
\* of the first Session
SessionManager_kill_queued(k) ==
    /\ queue = [i \in 1..QueueCap |->
                   IF i < k THEN SessionSignal(i + 1, <<"data">>)
                   ELSE IF i = k THEN KillSignal
                   ELSE SessionSignal(i, <<"data">>)]
    /\ tx_alive = TRUE
    /\ wpc = "send"
    /\ wresult = "running"
    /\ cur = [id |-> 1, reports |-> <<"data">>]
    /\ ridx = 1
    /\ npushed = QueueCap
    /\ kills = 1
    /\ send_called = {1}
    /\ send_result = [s \in SessionIds |-> "none"]
    /\ attempts = {}
    /\ before_kill = 1..k
    /\ ppc = "idle"
    /\ psignal = NoSession
    /\ prefilled = QueueCap
    /\ accepted = 1..QueueCap

\* SessionManager::new, before the worker's first recv
SessionManager_new ==
    /\ SessionManager_prefilled(0)
    /\ outage = FALSE
    /\ config_ok \in BOOLEAN

\* the worker thread has returned (its Receiver is dropped)
worker_exited == wpc \in {"killed", "disconnected", "failed"}

\* the channel takes the signal: tx.send returns Ok(())
enqueue(signal) ==
    /\ queue' = Append(queue, signal)
    /\ IF signal.kind = "Session"
       THEN /\ before_kill' = IF kills = 0 THEN before_kill \cup {signal.id}
                              ELSE before_kill
            /\ accepted' = accepted \cup {signal.id}
       ELSE UNCHANGED <<before_kill, accepted>>

\* self.tx.send(signal)?: fails once the Receiver is gone, returns when the
\* channel has room, and otherwise blocks the caller
tx_send(signal) ==
    IF worker_exited
    THEN UNCHANGED <<queue, before_kill, accepted, ppc, psignal>>
    ELSE IF Len(queue) < QueueCap
    THEN /\ enqueue(signal)
         /\ UNCHANGED <<ppc, psignal>>
    ELSE /\ ppc' = "blocked"
         /\ psignal' = signal
         /\ UNCHANGED <<queue, before_kill, accepted>>

\* SessionManager::push(SessionSignal::Session(..))
push_session ==
    /\ tx_alive
    /\ ppc = "idle"
    /\ npushed < prefilled + MaxPush
    /\ \E reports \in SeqsUpTo(ReportKinds, MaxReports) :
          tx_send(SessionSignal(npushed + 1, reports))
    /\ npushed' = npushed + 1
    /\ UNCHANGED <<tx_alive, wpc, wresult, cur, ridx, kills, send_called,
                   send_result, attempts, prefilled, outage, config_ok>>

\* SessionManager::push(SessionSignal::Kill)
push_kill ==
    /\ tx_alive
    /\ ppc = "idle"
    /\ kills < MaxKills
    /\ tx_send(KillSignal)
    /\ kills' = kills + 1
    /\ UNCHANGED <<tx_alive, wpc, wresult, cur, ridx, npushed, send_called,
                   send_result, attempts, prefilled, outage, config_ok>>

\* a faulty send_wakes: a sender that waits when the Receiver is dropped is
\* never woken
send_wakes_on_room == ~worker_exited /\ Len(queue) < QueueCap

\* a blocked tx.send goes on when the channel has room or the Receiver is gone
send_wakes == worker_exited \/ Len(queue) < QueueCap

\* a caller blocked in tx.send is woken: the worker has made room, or the
\* worker has returned and send fails
push_unblock ==
    /\ ppc = "blocked"
    /\ send_wakes
    /\ IF worker_exited
       THEN UNCHANGED <<queue, before_kill, accepted>>
       ELSE enqueue(psignal)
    /\ ppc' = "idle"
    /\ UNCHANGED <<tx_alive, wpc, wresult, cur, ridx, npushed, kills, send_called,
                   send_result, attempts, psignal, prefilled, outage, config_ok>>

\* the SessionManager (the only SyncSender) is dropped; push borrows it, so
\* no push is in progress
drop_manager ==
    /\ tx_alive
    /\ ppc = "idle"
    /\ tx_alive' = FALSE
    /\ UNCHANGED <<queue, wpc, wresult, cur, ridx, npushed, kills, send_called,
                   send_result, attempts, before_kill, ppc, psignal, prefilled,
                   outage, config_ok, accepted>>

\* a faulty dequeue: the newest signal is received first
dequeue_newest(q) == [signal |-> q[Len(q)], rest |-> SubSeq(q, 1, Len(q) - 1)]

\* rx.recv(): the oldest signal of the channel and the rest
dequeue(q) == [signal |-> Head(q), rest |-> Tail(q)]

\* the worker: `while let Ok(signal) = rx.recv()` and the match on the signal
worker_recv ==
    /\ wpc = "recv"
    /\ IF queue # <<>>
       THEN LET d == dequeue(queue) IN
            IF d.signal.kind = "Session"
            THEN /\ queue' = d.rest
                 /\ cur' = [id |-> d.signal.id, reports |-> d.signal.reports]
                 /\ ridx' = 1
                 /\ wpc' = "send"
                 /\ send_called' = send_called \cup {d.signal.id}
                 /\ UNCHANGED wresult
            ELSE \* Kill: the arm is entered; the Receiver lives until the return
                 /\ queue' = d.rest
                 /\ wpc' = "kill"
                 /\ UNCHANGED <<wresult, cur, ridx, send_called>>
       ELSE \* recv fails only when every sender is gone; else it blocks
            /\ ~tx_alive
            /\ wpc' = "disconnected"
            /\ wresult' = "Ok"
            /\ UNCHANGED <<queue, cur, ridx, send_called>>
    /\ UNCHANGED <<tx_alive, npushed, kills, send_result, attempts, before_kill,
                   ppc, psignal, prefilled, outage, config_ok, accepted>>

\* a faulty after_send: `session.send()?`, a failed send ends the worker
after_send_propagates(res) ==
    IF res = "Err" THEN [wpc |-> "failed", wresult |-> "Err"]
    ELSE [wpc |-> "recv", wresult |-> "running"]

\* the worker after session.send() returned res: both arms only log
after_send(res) == [wpc |-> "recv", wresult |-> "running"]

\* the outcomes of an ingest request: during an outage every request fails
request_outcomes == IF outage THEN {FALSE} ELSE BOOLEAN

\* the worker in the Kill arm: `return Ok(())` drops the Receiver and the
\* signals the channel still holds
worker_return ==
    /\ wpc = "kill"
    /\ queue' = <<>>
    /\ wpc' = "killed"
    /\ wresult' = "Ok"
    /\ UNCHANGED <<tx_alive, cur, ridx, npushed, kills, send_called, send_result,
                   attempts, before_kill, ppc, psignal, prefilled, outage,
                   config_ok, accepted>>

\* the worker inside session.send(): the is_empty check, then process(report)
\* up to the call of the ingest request
worker_send ==
    /\ wpc = "send"
    /\ IF ridx > Len(cur.reports)
       THEN \* reports.is_empty(), or the loop is over: Ok(())
            /\ send_result' = [send_result EXCEPT ![cur.id] = "Ok"]
            /\ wpc' = after_send("Ok").wpc
            /\ wresult' = after_send("Ok").wresult
            /\ UNCHANGED <<ridx, attempts>>
       ELSE IF cur.reports[ridx] = "empty"
       THEN \* report_u8.is_empty(): Ok(()) without a request
            /\ ridx' = ridx + 1
            /\ UNCHANGED <<send_result, wpc, wresult, attempts>>
       ELSE IF ~config_ok
       THEN \* merge_tags_with_app_name(..)?, Url::parse(&url)? or join("ingest")?
            \* returns the error: no request is made
            /\ send_result' = [send_result EXCEPT ![cur.id] = "Err"]
            /\ wpc' = after_send("Err").wpc
            /\ wresult' = after_send("Err").wresult
            /\ UNCHANGED <<ridx, attempts>>
       ELSE \* the ingest request is sent
            /\ attempts' = attempts \cup {<<cur.id, ridx>>}
            /\ wpc' = "request"
            /\ UNCHANGED <<send_result, wresult, ridx>>
    /\ UNCHANGED <<queue, tx_alive, cur, npushed, kills, send_called, before_kill,
                   ppc, psignal, prefilled, outage, config_ok, accepted>>

\* the worker inside process(): `.send()?` returns, within the 10 s timeout;
\* when it fails, `self.process(report)?` returns the error from send
worker_request ==
    /\ wpc = "request"
    /\ \E ok \in request_outcomes :
          IF ok
          THEN /\ ridx' = ridx + 1
               /\ wpc' = "send"
               /\ UNCHANGED <<send_result, wresult>>
          ELSE /\ send_result' = [send_result EXCEPT ![cur.id] = "Err"]
               /\ wpc' = after_send("Err").wpc
               /\ wresult' = after_send("Err").wresult
               /\ UNCHANGED ridx
    /\ UNCHANGED <<queue, tx_alive, cur, npushed, kills, send_called, attempts,
                   before_kill, ppc, psignal, prefilled, outage, config_ok,
                   accepted>>

-----------------------------------------------------------------------------
(* utils::get_time_range *)

\* get_time_range(timestamp): the 10-second window holding the timestamp;
\* timestamp 0 stands for the current time
get_time_range(timestamp, clock) ==
    LET t == IF timestamp = 0 THEN clock ELSE timestamp
    IN [from |-> (t \div 10) * 10, until |-> (t \div 10) * 10 + 10]

\* the cycle lengths: the divisors of 60
Cycles == {c \in 1..60 : 60 % c = 0}

-----------------------------------------------------------------------------
(* Timer *)

ListenerIds == 0..MaxListeners

\* Timer::set_timerfd: the timer's first expiration (TFD_TIMER_ABSTIME)
first_fire(clock) == get_time_range(0, clock).until

\* the value the worker sends after a wake-up at wall clock `clock`
next_snapshot(clock) == get_time_range(0, clock).from

\* the list after initialize: `txs.lock()?.push(tx)` of the dummy channel
dummy_txs == <<0>>

\* Timer::initialize(cycle) at wall clock start_time, after it returned: the
\* dummy tx is in the list and its receiver _rx is dropped
Timer_initialize ==
    /\ cycle \in Cycles
    /\ start_time \in 1..MaxStart
    /\ now = start_time
    /\ it_value = first_fire(start_time)
    /\ expirations = 0
    /\ due_since = 0
    /\ tpc = "check"
    /\ snapshot = 0
    /\ txs = dummy_txs
    /\ rx_alive = [l \in ListenerIds |-> FALSE]
    /\ inbox = [l \in ListenerIds |-> <<>>]
    /\ emitted = <<>>
    /\ nlisteners = 0
    /\ txs_lock = "free"
    /\ send_idx = 0
    /\ delivered = {}
    /\ attach_result = "none"
    /\ dropped = FALSE

\* the longest the worker sleeps past an expiration: C/2
late_ok(clock) == expirations = 0 \/ 2 * (clock - due_since) <= cycle

\* the worker thread has returned: from the is_empty branch, with the
\* descriptors closed, or with the error of Timer::epoll_wait, with the
\* descriptors open
timer_returned == tpc \in {"exited", "failed"}

\* one second passes; the timerfd counts an expiration when the clock reaches
\* it_value and re-arms it_interval later
clock_tick ==
    /\ now < MaxTime
    /\ timer_returned \/ late_ok(now + 1)
    /\ now' = now + 1
    /\ IF tpc # "exited" /\ now + 1 >= it_value
       THEN /\ expirations' = expirations + 1
            /\ it_value' = it_value + cycle
            /\ due_since' = IF expirations = 0 THEN now + 1 ELSE due_since
       ELSE UNCHANGED <<expirations, it_value, due_since>>
    /\ UNCHANGED <<cycle, start_time, tpc, snapshot, txs, rx_alive, inbox, emitted,
                   nlisteners, txs_lock, send_idx, delivered, attach_result, dropped>>

\* the worker: `if txs.lock()?.is_empty()`: close the descriptors and return
timer_check ==
    /\ tpc = "check"
    /\ txs_lock = "free"
    /\ tpc' = IF txs = <<>> THEN "exited" ELSE "wait"
    /\ UNCHANGED <<now, cycle, start_time, it_value, expirations, due_since,
                   snapshot, txs, rx_alive, inbox, emitted, nlisteners, txs_lock,
                   send_idx, delivered, attach_result, dropped>>

\* the worker: Timer::epoll_wait returns once the timerfd has expired, the
\* read clears the count; then get_time_range(0)?.from
timer_wait ==
    /\ tpc = "wait"
    /\ expirations > 0
    /\ expirations' = 0
    /\ snapshot' = next_snapshot(now)
    /\ tpc' = "fanout"
    /\ UNCHANGED <<now, cycle, start_time, it_value, due_since, txs, rx_alive,
                   inbox, emitted, nlisteners, txs_lock, send_idx, delivered,
                   attach_result, dropped>>

\* the worker: `Timer::epoll_wait(timer_fd, epoll_fd)?` returns an error (a
\* signal interrupts epoll_wait) and the closure returns it: the listeners
\* stay in the list and the descriptors stay open
timer_wait_err ==
    /\ tpc = "wait"
    /\ tpc' = "failed"
    /\ UNCHANGED <<now, cycle, start_time, it_value, expirations, due_since,
                   snapshot, txs, rx_alive, inbox, emitted, nlisteners, txs_lock,
                   send_idx, delivered, attach_result, dropped>>

\* a faulty next_send: a failed send ends the iteration
next_send_stops(sent, idx, len) == IF sent THEN idx + 1 ELSE len + 1

\* `if tx.send(from).is_ok() {}`: the iteration goes on whatever send returned
next_send(sent, idx, len) == idx + 1

\* the worker: `txs.lock()?` of the fan-out statement; the guard lives until
\* the end of the statement
timer_fanout ==
    /\ tpc = "fanout"
    /\ txs_lock = "free"
    /\ txs_lock' = "worker"
    /\ send_idx' = 1
    /\ delivered' = {}
    /\ emitted' = Append(emitted, snapshot)
    /\ tpc' = "sending"
    /\ UNCHANGED <<now, cycle, start_time, it_value, expirations, due_since,
                   snapshot, txs, rx_alive, inbox, nlisteners, attach_result, dropped>>

\* the worker: one `tx.send(from)` of `.iter().for_each(..)`, the lock held;
\* send on an unbounded channel fails only when the Receiver is gone
timer_send ==
    /\ tpc = "sending"
    /\ send_idx <= Len(txs)
    /\ LET l == txs[send_idx] IN
          /\ inbox' = IF rx_alive[l] THEN [inbox EXCEPT ![l] = Append(@, snapshot)]
                      ELSE inbox
          /\ delivered' = IF rx_alive[l] THEN delivered \cup {l} ELSE delivered
          /\ send_idx' = next_send(rx_alive[l], send_idx, Len(txs))
    /\ UNCHANGED <<now, cycle, start_time, it_value, expirations, due_since, tpc,
                   snapshot, txs, rx_alive, emitted, nlisteners, txs_lock,
                   attach_result, dropped>>

\* the worker: the fan-out statement ends and the guard is dropped
timer_unlock ==
    /\ tpc = "sending"
    /\ send_idx > Len(txs)
    /\ txs_lock' = "free"
    /\ tpc' = "check"
    /\ UNCHANGED <<now, cycle, start_time, it_value, expirations, due_since,
                   snapshot, txs, rx_alive, inbox, emitted, nlisteners, send_idx,
                   delivered, attach_result, dropped>>

\* Timer::attach_listener(tx)
attach_listener ==
    /\ nlisteners < MaxListeners
    /\ txs_lock = "free"
    /\ nlisteners' = nlisteners + 1
    /\ txs' = Append(txs, nlisteners + 1)
    /\ rx_alive' = [rx_alive EXCEPT ![nlisteners + 1] = TRUE]
    /\ attach_result' = "Ok"
    /\ UNCHANGED <<now, cycle, start_time, it_value, expirations, due_since, tpc,
                   snapshot, inbox, emitted, txs_lock, send_idx, delivered,
                   dropped>>

\* Timer::drop_listeners()
drop_listeners ==
    /\ txs # <<>>
    /\ txs_lock = "free"
    /\ txs' = <<>>
    /\ dropped' = TRUE
    /\ UNCHANGED <<now, cycle, start_time, it_value, expirations, due_since, tpc,
                   snapshot, rx_alive, inbox, emitted, nlisteners, txs_lock,
                   send_idx, delivered, attach_result>>

\* a listener drops its Receiver
drop_receiver ==
    /\ \E l \in 1..nlisteners :
          /\ rx_alive[l]
          /\ rx_alive' = [rx_alive EXCEPT ![l] = FALSE]
    /\ UNCHANGED <<now, cycle, start_time, it_value, expirations, due_since, tpc,
                   snapshot, txs, inbox, emitted, nlisteners, txs_lock, send_idx,
                   delivered, attach_result, dropped>>

-----------------------------------------------------------------------------
(* Session::new *)

NoWindow == [ok |-> FALSE, from |-> 0, until |-> 0]

\* Session::new(until, ..): the window of the Session. `ok` is FALSE when
\* `time_range.from - 10` underflows u64 (a panic, or a wrapped value)
Session_new(until) ==
    LET time_range == get_time_range(until, 0)
    IN IF time_range.from < 10
       THEN [ok |-> FALSE, from |-> 0, until |-> time_range.until - 10]
       ELSE [ok |-> TRUE, from |-> time_range.from - 10,
             until |-> time_range.until - 10]

\* the tick times of a cycle: its positive multiples
TickTimes(c) == {t \in 1..MaxTick : t % c = 0}

Window_init ==
    /\ w_cycle \in Cycles
    /\ w_tick = 0
    /\ w_session = NoWindow

\* the agent builds the Session of a tick
new_session ==
    /\ \E t \in TickTimes(w_cycle) :
          /\ w_tick' = t
          /\ w_session' = Session_new(t)
    /\ UNCHANGED w_cycle

-----------------------------------------------------------------------------
(* Specifications *)

\* the subsystems a specification does not run stay as constructed
Backend_parked ==
    /\ Pyspy_new
    /\ include_idle = FALSE
    /\ gil_only = FALSE

Session_parked ==
    /\ SessionManager_new
    /\ config_ok = TRUE

Timer_parked ==
    /\ Timer_initialize
    /\ cycle = 10
    /\ start_time = 1

Window_parked ==
    /\ Window_init
    /\ w_cycle = 10

InitBackend == Pyspy_new /\ Session_parked /\ Timer_parked /\ Window_parked
NextBackend ==
    \/ initialize /\ UNCHANGED <<svars, tvars, wvars>>
    \/ start /\ UNCHANGED <<svars, tvars, wvars>>
    \/ stop_store /\ UNCHANGED <<svars, tvars, wvars>>
    \/ stop_join /\ UNCHANGED <<svars, tvars, wvars>>
    \/ report_to_string /\ UNCHANGED <<svars, tvars, wvars>>
    \/ report_clear /\ UNCHANGED <<svars, tvars, wvars>>
    \/ sampler_new /\ UNCHANGED <<svars, tvars, wvars>>
    \/ sampler_next /\ UNCHANGED <<svars, tvars, wvars>>
    \/ sampler_trace /\ UNCHANGED <<svars, tvars, wvars>>
SpecBackend == InitBackend /\ [][NextBackend]_vars

InitSession == Backend_parked /\ SessionManager_new /\ Timer_parked /\ Window_parked
NextSession ==
    \/ push_session /\ UNCHANGED <<bvars, tvars, wvars>>
    \/ push_kill /\ UNCHANGED <<bvars, tvars, wvars>>
    \/ drop_manager /\ UNCHANGED <<bvars, tvars, wvars>>
    \/ worker_recv /\ UNCHANGED <<bvars, tvars, wvars>>
    \/ worker_return /\ UNCHANGED <<bvars, tvars, wvars>>
    \/ worker_send /\ UNCHANGED <<bvars, tvars, wvars>>
    \/ worker_request /\ UNCHANGED <<bvars, tvars, wvars>>
SpecSession == InitSession /\ [][NextSession]_vars

\* the SessionManager with a full channel during an outage
InitSessionFull ==
    /\ Backend_parked /\ Timer_parked /\ Window_parked
    /\ SessionManager_prefilled(QueueCap + 1)
    /\ outage = TRUE
    /\ config_ok = TRUE
NextSessionFull ==
    \/ push_session /\ UNCHANGED <<bvars, tvars, wvars>>
    \/ push_kill /\ UNCHANGED <<bvars, tvars, wvars>>
    \/ push_unblock /\ UNCHANGED <<bvars, tvars, wvars>>
    \/ drop_manager /\ UNCHANGED <<bvars, tvars, wvars>>
    \/ worker_recv /\ UNCHANGED <<bvars, tvars, wvars>>
    \/ worker_return /\ UNCHANGED <<bvars, tvars, wvars>>
    \/ worker_send /\ UNCHANGED <<bvars, tvars, wvars>>
    \/ worker_request /\ UNCHANGED <<bvars, tvars, wvars>>
SpecSessionFull == InitSessionFull /\ [][NextSessionFull]_vars

\* the SessionManager during an outage, from its construction; the worker
\* thread is scheduled
InitOutage ==
    /\ Backend_parked /\ Timer_parked /\ Window_parked
    /\ SessionManager_prefilled(0)
    /\ outage = TRUE
    /\ config_ok = TRUE
SpecOutage ==
    /\ InitOutage
    /\ [][NextSession]_vars
    /\ WF_vars(worker_recv /\ UNCHANGED <<bvars, tvars, wvars>>)
    /\ WF_vars(worker_return /\ UNCHANGED <<bvars, tvars, wvars>>)
    /\ WF_vars(worker_send /\ UNCHANGED <<bvars, tvars, wvars>>)
    /\ WF_vars(worker_request /\ UNCHANGED <<bvars, tvars, wvars>>)

\* the SessionManager with a full channel that holds a Kill, during an
\* outage; the worker thread and a woken sender are scheduled
InitShutdownFull ==
    /\ Backend_parked /\ Timer_parked /\ Window_parked
    /\ \E k \in 1..MaxKillSlot : SessionManager_kill_queued(k)
    /\ outage = TRUE
    /\ config_ok \in BOOLEAN
NextShutdownFull ==
    \/ push_session /\ UNCHANGED <<bvars, tvars, wvars>>
    \/ push_unblock /\ UNCHANGED <<bvars, tvars, wvars>>
    \/ drop_manager /\ UNCHANGED <<bvars, tvars, wvars>>
    \/ worker_recv /\ UNCHANGED <<bvars, tvars, wvars>>
    \/ worker_return /\ UNCHANGED <<bvars, tvars, wvars>>
    \/ worker_send /\ UNCHANGED <<bvars, tvars, wvars>>
    \/ worker_request /\ UNCHANGED <<bvars, tvars, wvars>>
SpecShutdownFull ==
    /\ InitShutdownFull
    /\ [][NextShutdownFull]_vars
    /\ WF_vars(push_unblock /\ UNCHANGED <<bvars, tvars, wvars>>)
    /\ WF_vars(worker_recv /\ UNCHANGED <<bvars, tvars, wvars>>)
    /\ WF_vars(worker_return /\ UNCHANGED <<bvars, tvars, wvars>>)
    /\ WF_vars(worker_send /\ UNCHANGED <<bvars, tvars, wvars>>)
    /\ WF_vars(worker_request /\ UNCHANGED <<bvars, tvars, wvars>>)

InitTimer == Backend_parked /\ Session_parked /\ Timer_initialize /\ Window_parked
NextTimer ==
    \/ clock_tick /\ UNCHANGED <<bvars, svars, wvars>>
    \/ timer_check /\ UNCHANGED <<bvars, svars, wvars>>
    \/ timer_wait /\ UNCHANGED <<bvars, svars, wvars>>
    \/ timer_wait_err /\ UNCHANGED <<bvars, svars, wvars>>
    \/ timer_fanout /\ UNCHANGED <<bvars, svars, wvars>>
    \/ timer_send /\ UNCHANGED <<bvars, svars, wvars>>
    \/ timer_unlock /\ UNCHANGED <<bvars, svars, wvars>>
    \/ attach_listener /\ UNCHANGED <<bvars, svars, wvars>>
    \/ drop_listeners /\ UNCHANGED <<bvars, svars, wvars>>
    \/ drop_receiver /\ UNCHANGED <<bvars, svars, wvars>>
SpecTimer == InitTimer /\ [][NextTimer]_vars

InitWindow == Backend_parked /\ Session_parked /\ Timer_parked /\ Window_init
NextWindow == new_session /\ UNCHANGED <<bvars, svars, tvars>>
SpecWindow == InitWindow /\ [][NextWindow]_vars

-----------------------------------------------------------------------------
(* Claims *)

\* C1: every sample recorded into the buffer appears in exactly one report()
\* result: whenever the caller is between calls, each trace's recorded count
\* is what the reports returned plus what the buffer still holds.
C1_DrainCompleteness ==
    cpc = "idle" => \A t \in TraceIds : recorded[t] = returned[t] + buffer[t]

\* C2: when the worker has received Kill, every Session enqueued ahead of
\* that Kill has had its send entered and finished, and the worker's result
\* is Ok.
C2_KillAfterEarlierSessions ==
    /\ wpc \in {"kill", "killed"} =>
          \A s \in before_kill : s \in send_called /\ send_result[s] # "none"
    /\ wpc = "killed" => wresult = "Ok"

C2_Witness ==
    /\ wpc = "killed"
    /\ Cardinality(before_kill) >= 2
    /\ \E s \in before_kill : send_result[s] = "Err"

\* C3: a failed send never terminates the worker: the step in which a send
\* fails leaves the worker receiving with no thread result yet, and the
\* worker ends only on Kill or when every sender is gone, with Ok.
C3_FailedSendKeepsWorker ==
    /\ [][\A s \in SessionIds :
            (send_result[s] = "none" /\ send_result'[s] = "Err")
                => (wpc' = "recv" /\ wresult' = "running")]_vars
    /\ [](worker_exited => (wpc \in {"killed", "disconnected"} /\ wresult = "Ok"))

C3_Witness ==
    \E s1, s2 \in SessionIds :
        /\ s1 < s2
        /\ send_result[s1] = "Err"
        /\ send_result[s2] = "Ok"
        /\ <<s2, 1>> \in attempts

\* C4: once send has returned for a Session, an ingest request was attempted
\* for every non-empty report of that Session, whatever the earlier outcomes.
C4_EveryReportAttempted ==
    (cur.id # 0 /\ send_result[cur.id] # "none") =>
        \A i \in 1..Len(cur.reports) :
            cur.reports[i] = "data" => <<cur.id, i>> \in attempts

\* C5: initialize when not Uninitialized, start when not Ready and stop when
\* not Running return an error and leave state, buffer, running flag, sampler
\* thread handle (and sampler configuration) unchanged.
C5_IllegalOpRejected ==
    [][(/\ cpc = "idle"
        /\ \/ last'.op = "initialize" /\ state # "Uninitialized"
           \/ last'.op = "start" /\ state # "Ready"
           \/ last'.op = "stop" /\ state # "Running")
       => (/\ last'.res = "Err"
           /\ UNCHANGED <<state, buffer, running, sampler_thread, sampler_config,
                          spc, cpc>>)]_vars

C5_Witness ==
    /\ last = [op |-> "start", res |-> "Err"]
    /\ state = "Running"
    /\ running
    /\ sampler_thread = "Some"
    /\ \E t \in TraceIds : buffer[t] > 0

\* C6: the state changes only Uninitialized -> Ready by a successful
\* initialize, Ready -> Running by a successful start and Running -> Ready by
\* a successful stop; a Running backend has been initialized.
C6_LegalTransitions ==
    /\ [][state' # state =>
            \/ /\ state = "Uninitialized" /\ state' = "Ready"
               /\ last' = [op |-> "initialize", res |-> "Ok"]
            \/ /\ state = "Ready" /\ state' = "Running"
               /\ last' = [op |-> "start", res |-> "Ok"]
            \/ /\ state = "Running" /\ state' = "Ready"
               /\ last' = [op |-> "stop", res |-> "Ok"]]_vars
    /\ [](state = "Running" => sampler_config = "Some")

C6_Witness ==
    /\ state = "Running"
    /\ last = [op |-> "start", res |-> "Ok"]
    /\ nsamples > 0

\* C7: report() succeeds in Running and in Ready, and leaves the buffer empty.
C7_ReportInReadyOrRunning ==
    (last.op = "report" /\ last.res # "pending" /\ state \in {"Ready", "Running"})
        => (last.res = "Ok" /\ buffer = Report_default)

\* C8: a successful stop() returns with the sampler thread terminated and the
\* state Ready; no step of stop() changes the buffer; and while the state is
\* Ready (from stop's return to the next start) nothing is recorded.
C8_StopJoinsAndKeepsSamples ==
    /\ []((last = [op |-> "stop", res |-> "Ok"])
            => (state = "Ready" /\ spc = "none" /\ sampler_thread = "None"))
    /\ [][last'.op = "stop" => buffer' = buffer]_vars
    /\ [][state = "Ready" => (buffer' = buffer /\ recorded' = recorded)]_vars

C8_Witness ==
    /\ last = [op |-> "stop", res |-> "Ok"]
    /\ \E t \in TraceIds : buffer[t] > 0

\* C9: for every cycle C dividing 60 and every tick t that is a multiple of
\* C, Session::new(t, ..) has until = t and from = t - C.
C9_SessionWindow ==
    w_tick # 0 =>
        /\ w_session.ok
        /\ w_session.until = w_tick
        /\ w_session.from = w_tick - w_cycle

\* C10: every emitted NextSnapshot value is a multiple of C and at least
\* start_time, and exceeds the previous one by exactly C.
C10_TickAlignment ==
    \A i \in 1..Len(emitted) :
        /\ emitted[i] % cycle = 0
        /\ emitted[i] >= start_time
        /\ i > 1 => emitted[i] = emitted[i - 1] + cycle

\* C11: the values a listener receives are strictly increasing: never the
\* same value twice, never a smaller one.
C11_StrictlyIncreasing ==
    \A l \in ListenerIds :
        \A i \in 2..Len(inbox[l]) : inbox[l][i] > inbox[l][i - 1]

\* C12: when the fan-out of a tick is over, every listener of the list whose
\* receiver exists has been sent the tick's value, also those listed after a
\* listener whose send failed; and a send is never blocked.
C12_FanOutReachesAll ==
    /\ (tpc = "sending" /\ send_idx > Len(txs)) =>
          \A i \in 1..Len(txs) :
              rx_alive[txs[i]] =>
                  /\ txs[i] \in delivered
                  /\ inbox[txs[i]] # <<>>
                  /\ inbox[txs[i]][Len(inbox[txs[i]])] = snapshot
    /\ (tpc = "sending" /\ send_idx <= Len(txs)) => ENABLED timer_send

C12_Witness ==
    /\ tpc = "sending"
    /\ send_idx > Len(txs)
    /\ Len(txs) >= 2
    /\ ~rx_alive[txs[1]]
    /\ txs[2] \in delivered

\* C13: when drop_listeners() empties the list while the worker waits for
\* the timer, the expiration that lets the worker exit is at most C seconds
\* away.
C13_ExitWithinCycle ==
    [][(txs # <<>> /\ txs' = <<>> /\ tpc = "wait" /\ expirations = 0)
          => it_value <= now + cycle]_vars

\* C14: attach_listener on a Timer whose worker has exited fails with
\* TimerTerminated.
C14_AttachAfterExitFails ==
    [][(tpc = "exited" /\ nlisteners' = nlisteners + 1)
          => attach_result' = "TimerTerminated"]_vars

\* C20: no send to a listener happens while the worker holds the lock of the
\* listener list.
C20_SendsOutsideLock ==
    [][(tpc = "sending" /\ send_idx' # send_idx) => txs_lock = "free"]_vars

\* C19: a stop() that returns an error on a Running backend leaves it as it
\* was before the call: Running, with the sampler thread handle still held,
\* so that no later stop() panics.
C19_FailedStopLeavesBackend ==
    /\ (last = [op |-> "stop", res |-> "Err"] /\ state = "Running")
          => (sampler_thread = "Some" /\ running)
    /\ last # [op |-> "stop", res |-> "panic"]

\* C15: push never blocks its caller: no call of push waits for the worker to
\* free a slot of the channel.
C15_PushNeverBlocks == ppc # "blocked"

\* C16: Sessions are shipped in the order of their pushes and one at a time:
\* when the send of a Session has begun, the send of every Session pushed
\* before it has returned, and the only send in progress is the worker's
\* current one.
C16_ShipsInQueueOrder ==
    /\ \A s1, s2 \in SessionIds :
          (s1 < s2 /\ s2 \in send_called) => send_result[s1] # "none"
    /\ \A s \in send_called :
          send_result[s] = "none" => (wpc \in {"send", "request"} /\ cur.id = s)

C16_Witness ==
    /\ wpc = "send"
    /\ cur.id = 2
    /\ send_result[1] # "none"
    /\ queue = <<>>

\* C17: every Session whose push returned Ok is sent by the worker: when the
\* worker has returned, none of them is left unsent.
C17_AcceptedIsConsumed ==
    worker_exited => \A s \in accepted : send_result[s] # "none"

\* the channel holds a Kill signal
kill_queued == \E i \in 1..Len(queue) : queue[i].kind = "Kill"

\* C18: during an outage, once the Kill that follows N Sessions is in the
\* channel, the worker comes to attempt every one of the N Sessions and to
\* return Ok(()).
C18_OutageShutdown ==
    (outage /\ kill_queued) ~>
        /\ wpc = "killed"
        /\ wresult = "Ok"
        /\ \A s \in before_kill : s \in send_called /\ send_result[s] # "none"

C18_Witness ==
    /\ outage
    /\ wpc = "killed"
    /\ wresult = "Ok"
    /\ Cardinality(before_kill) >= 2
    /\ \A s \in before_kill : send_result[s] = "Err"

\* C21: as long as drop_listeners() has not been called the listener list is
\* not empty and the Timer worker has not returned, whether or not a listener
\* was attached and whether or not the receivers still exist.
C21_NoExitBeforeDrop ==
    ~dropped => (txs # <<>> /\ ~timer_returned)

\* the sampler thread has been spawned and its closure has not returned
sampler_alive == spc \in {"new", "next", "trace"}

\* C22: at most one sampler thread is alive: start() spawns a thread only
\* when no sampler thread is alive, and a sampler thread lives only while
\* the state is Running, where start() refuses to spawn.
C22_OneSamplerThread ==
    /\ [][(spc # "new" /\ spc' = "new") => ~sampler_alive]_vars
    /\ [](sampler_alive => (state = "Running" /\ ~start_legal))

\* a second start(): the thread of an earlier start() has recorded
C22_Witness ==
    /\ last = [op |-> "start", res |-> "Ok"]
    /\ sampler_alive
    /\ \E t \in TraceIds : recorded[t] > 0

\* C23: push never blocks forever: a caller that waits on a full channel comes
\* to return; while the worker is alive its signal is then accepted, and once
\* the worker has exited push returns an error, for a new call and for the
\* caller that was waiting.
C23_PushReturns ==
    /\ (ppc = "blocked") ~> (ppc = "idle")
    /\ [][(ppc = "blocked" /\ ppc' = "idle" /\ ~worker_exited)
             => queue' = Append(queue, psignal)]_vars
    /\ [][(ppc = "blocked" /\ ppc' = "idle" /\ worker_exited)
             => (queue' = queue /\ psignal.id \notin accepted')]_vars
    /\ [][(worker_exited /\ npushed' = npushed + 1)
             => (ppc' = "idle" /\ queue' = queue /\ accepted' = accepted)]_vars

\* the worker has taken the Kill while a caller waited, and that caller has
\* returned with an error
C23_Witness ==
    /\ wpc = "killed"
    /\ ppc = "idle"
    /\ psignal.id = npushed
    /\ npushed \notin accepted
    /\ \E s \in accepted : s > prefilled
====
